---------------------------- MODULE Spec2Model ----------------------------
(***************************************************************************)
(* Model of backend/main/views.py: the api_view dispatcher and the API     *)
(* class (run_code, load_data, set_developer_mode, current_state,          *)
(* move_step, set_page, get_solution, submit_feedback).                    *)
(*                                                                         *)
(* A request is handled in two atomic phases.  Dispatch runs api_view up   *)
(* to the method call, loads request.user, and for run_code runs the       *)
(* method up to the blocking worker_result call.  RunMethod (every other   *)
(* method) and WorkerResult (run_code) run the rest of the method and the  *)
(* tail of api_view.  Each phase touches the stored user at most once      *)
(* (the load in Dispatch, user.save() in the second phase).                *)
(*                                                                         *)
(* Python values: indices are 0-based integers, a Python list is a TLA+    *)
(* sequence (list[i] is seq[i+1]), a dict is a record or a function, an    *)
(* exception is the name of its class carried in the field exc.            *)
(***************************************************************************)
EXTENDS Integers, Sequences, FiniteSets, TLC

VARIABLES
    stored,     \* the User row of the learner in the database
    settings,   \* django.conf.settings: [SAVE_CODE_ENTRIES]
    program_text,   \* main.text: the program text the catalog's steps carry
    req         \* per request-handling thread: the request in progress, with
                \* request.user as loaded and as the method has changed it

vars == <<stored, settings, program_text, req>>

(***************************************************************************)
(* Bounds of the model                                                     *)
(***************************************************************************)
\* longest output_parts list the worker returns
MaxParts == 2
\* most functions in a birdseye_objects payload
MaxFuncs == 1
\* most calls in a birdseye_objects payload
MaxCalls == 1
\* highest Function id the shared trace store holds before a request reaches it
MaxLastId == 1
\* longest program text, in characters, of the tokenizer specification
MaxProgram == 4

(***************************************************************************)
(* Python helpers                                                          *)
(***************************************************************************)
\* Python None where a string is expected
None == "None"

\* seq[i] in Python does not raise IndexError
PyInRange(seq, i) == -Len(seq) <= i /\ i < Len(seq)

\* seq[i] in Python, negative indices counting from the end
PyGet(seq, i) == IF i >= 0 THEN seq[i + 1] ELSE seq[Len(seq) + i + 1]

\* list.index(x): 0-based position of the first element equal to x, -1 for ValueError
PyIndex(seq, x) ==
    IF \E i \in 1..Len(seq) : seq[i] = x
    THEN (CHOOSE i \in 1..Len(seq) :
              seq[i] = x /\ \A j \in 1..(i - 1) : seq[j] # x) - 1
    ELSE -1

\* dict item assignment d[k] = v, creating the key when absent
DictSet(d, k, v) == [x \in (DOMAIN d) \cup {k} |-> IF x = k THEN v ELSE d[x]]

\* the empty dict
EmptyDict == [x \in {} |-> None]

(***************************************************************************)
(* The catalog (main.text): pages in catalog order, each with its ordered  *)
(* step names.  Step names are attribute names of the page class, hence    *)
(* unique within a page; every page ends with final_text.                  *)
(***************************************************************************)
page_slugs_list == <<"intro", "loops">>

pages ==
    [slug \in {"intro", "loops"} |->
        IF slug = "intro"
        THEN [slug |-> "intro", title |-> "Introduction", index |-> 0,
              step_names |-> <<"welcome", "hello_world", "final_text">>]
        ELSE [slug |-> "loops", title |-> "Loops", index |-> 1,
              step_names |-> <<"first_loop", "final_text">>]]

Slugs == DOMAIN pages

NumPages == Len(page_slugs_list)

\* the longest step list of the catalog
MaxSteps == CHOOSE n \in 0..8 :
    /\ \E s \in Slugs : Len(pages[s].step_names) = n
    /\ \A s \in Slugs : Len(pages[s].step_names) <= n

(***************************************************************************)
(* The User model (main.models)                                            *)
(***************************************************************************)
\* a freshly created learner: first page, no page progress recorded
NewUser ==
    [page_slug |-> page_slugs_list[1],
     pages_progress |-> EmptyDict,
     developer_mode |-> FALSE,
     is_anonymous |-> FALSE]

\* request.user of a request without a logged-in session (django AnonymousUser):
\* it has is_anonymous and id, and none of the model's fields
AnonymousUser == [is_anonymous |-> TRUE]

\* User.pages_progress[page_slug]: the recorded entry of the page, and for a
\* page without a record the entry of its first step; reading creates nothing
pages_progress_get(user, page_slug) ==
    IF page_slug \in DOMAIN user.pages_progress
    THEN [step_name |-> user.pages_progress[page_slug]]
    ELSE [step_name |-> pages[page_slug].step_names[1]]

\* User.pages_progress[page_slug]["step_name"] = step_name: records the step of
\* the page, creating the page's entry when there is none
pages_progress_set(user, page_slug, step_name) ==
    [user EXCEPT !.pages_progress = DictSet(@, page_slug, step_name)]

\* str.isspace(): at least one character and every character is whitespace
isspace(token) ==
    /\ Len(token) > 0
    /\ \A i \in 1..Len(token) : token[i] \in {" ", "\t", "\n"}

\* the text of a program: a sequence of characters
Chars(string) ==
    CASE string = "" -> <<>>
      [] string = "x + x\n" -> <<"x", " ", "+", " ", "x", "\n">>

\* the step class getattr(page, step_name): the catalog holds one program,
\* as the program of the steps that show one and as the solution of the exercises
step_class(page_slug, step_name) ==
    IF step_name = "final_text"
    THEN [is_exercise |-> FALSE, program |-> Chars("")]
    ELSE IF step_name = "welcome"
    THEN [is_exercise |-> FALSE, program |-> program_text]
    ELSE [is_exercise |-> TRUE, solution |-> [function |-> "solution", body |-> program_text]]

\* clean_program: the cleaned program of a solution function
clean_program(solution) == solution.body

(***************************************************************************)
(* tokenize.generate_tokens, for programs made of names, the operator +,   *)
(* spaces, tabs, newlines and backslashes                                  *)
(***************************************************************************)
NameChars == {"x"}

Blank == {" ", "\t"}

tabsize == 8

TokenInfo(type, string, srow, scol, erow, ecol) ==
    [type |-> type, string |-> string, start |-> <<srow, scol>>, end |-> <<erow, ecol>>]

\* the lines readline returns, each with its newline
RECURSIVE readlines(_)
readlines(program) ==
    IF Len(program) = 0 THEN <<>>
    ELSE LET n == IF \E i \in 1..Len(program) : program[i] = "\n"
                  THEN CHOOSE i \in 1..Len(program) :
                          /\ program[i] = "\n"
                          /\ \A j \in 1..(i - 1) : program[j] # "\n"
                  ELSE Len(program)
         IN  <<SubSeq(program, 1, n)>> \o readlines(SubSeq(program, n + 1, Len(program)))

\* 0-based position of the first character at or after pos that is not in
\* the set, len(line) when there is none
RECURSIVE skip(_, _, _)
skip(line, pos, chars) ==
    IF pos < Len(line) /\ line[pos + 1] \in chars THEN skip(line, pos + 1, chars) ELSE pos

\* the column of the first pos characters of a line, all blank
RECURSIVE column_of(_, _)
column_of(line, pos) ==
    IF pos = 0 THEN 0
    ELSE IF line[pos] = " " THEN column_of(line, pos - 1) + 1
    ELSE ((column_of(line, pos - 1) \div tabsize) + 1) * tabsize

yield(g, token) == [g EXCEPT !.tokens = Append(@, token)]

\* the loop over the pseudo-tokens of one line, from position pos
RECURSIVE scan_line(_, _, _, _)
scan_line(g, line, lnum, pos) ==
    IF pos >= Len(line) THEN g
    ELSE LET start == skip(line, pos, Blank)
         IN  IF start = Len(line) THEN g
             ELSE IF line[start + 1] = "\\" /\ start + 1 < Len(line) /\ line[start + 2] = "\n"
             THEN scan_line([g EXCEPT !.continued = TRUE], line, lnum, start + 2)
             ELSE IF line[start + 1] = "\\"
             THEN scan_line(yield(g, TokenInfo("ERRORTOKEN", <<line[pos + 1]>>,
                                               lnum, pos, lnum, pos + 1)),
                            line, lnum, pos + 1)
             ELSE IF line[start + 1] = "\n"
             THEN scan_line(yield(g, TokenInfo("NEWLINE", <<"\n">>,
                                               lnum, start, lnum, start + 1)),
                            line, lnum, start + 1)
             ELSE IF line[start + 1] \in NameChars
             THEN LET end == skip(line, start, NameChars)
                  IN  scan_line(yield(g, TokenInfo("NAME", SubSeq(line, start + 1, end),
                                                   lnum, start, lnum, end)),
                                line, lnum, end)
             ELSE scan_line(yield(g, TokenInfo("OP", <<line[start + 1]>>,
                                               lnum, start, lnum, start + 1)),
                            line, lnum, start + 1)

\* while column < indents[-1]: a DEDENT for each level left
RECURSIVE dedent(_, _, _, _)
dedent(g, column, lnum, pos) ==
    IF column >= g.indents[Len(g.indents)] THEN g
    ELSE IF \A i \in 1..Len(g.indents) : g.indents[i] # column
    THEN [g EXCEPT !.error = "IndentationError"]
    ELSE dedent(yield([g EXCEPT !.indents = SubSeq(@, 1, Len(@) - 1)],
                      TokenInfo("DEDENT", <<>>, lnum, pos, lnum, pos)),
                column, lnum, pos)

RECURSIVE dedent_all(_, _, _)
dedent_all(g, n, lnum) ==
    IF n = 0 THEN g
    ELSE dedent_all(yield(g, TokenInfo("DEDENT", <<>>, lnum, 0, lnum, 0)), n - 1, lnum)

\* after the loop over the lines: the NEWLINE of a last line that lacks one,
\* the DEDENTs, the ENDMARKER
at_eof(g, last_line, lnum) ==
    LET g1 == IF Len(last_line) > 0 /\ last_line[Len(last_line)] # "\n"
              THEN yield(g, TokenInfo("NEWLINE", <<>>, lnum - 1, Len(last_line),
                                      lnum - 1, Len(last_line) + 1))
              ELSE g
        g2 == dedent_all(g1, Len(g.indents) - 1, lnum)
    IN  yield(g2, TokenInfo("ENDMARKER", <<>>, lnum, 0, lnum, 0))

\* the loop over the lines, from line lnum
RECURSIVE tokenize_from(_, _, _)
tokenize_from(g, lines, lnum) ==
    LET last_line == IF lnum > 1 THEN lines[lnum - 1] ELSE <<>>
    IN  IF g.error # "none" THEN g
        ELSE IF lnum > Len(lines)
        THEN IF g.continued THEN [g EXCEPT !.error = "TokenError"]
             ELSE at_eof(g, last_line, lnum)
        ELSE LET line == lines[lnum]
                 pos == skip(line, 0, Blank)
                 column == column_of(line, pos)
             IN  IF g.continued
                 THEN tokenize_from(scan_line([g EXCEPT !.continued = FALSE], line, lnum, 0),
                                    lines, lnum + 1)
                 ELSE IF pos = Len(line) THEN at_eof(g, last_line, lnum)
                 ELSE IF line[pos + 1] = "\n"
                 THEN tokenize_from(yield(g, TokenInfo("NL", SubSeq(line, pos + 1, Len(line)),
                                                       lnum, pos, lnum, Len(line))),
                                    lines, lnum + 1)
                 ELSE LET g1 == IF column > g.indents[Len(g.indents)]
                                THEN yield([g EXCEPT !.indents = Append(@, column)],
                                           TokenInfo("INDENT", SubSeq(line, 1, pos),
                                                     lnum, 0, lnum, pos))
                                ELSE g
                          g2 == dedent(g1, column, lnum, pos)
                      IN  IF g2.error # "none" THEN g2
                          ELSE tokenize_from(scan_line(g2, line, lnum, pos), lines, lnum + 1)

\* generate_tokens(StringIO(program).readline): the tokens, or the exception
generate_tokens(program) ==
    tokenize_from([tokens |-> <<>>, indents |-> <<0>>, continued |-> FALSE, error |-> "none"],
                  readlines(program), 1)

(***************************************************************************)
(* tokenize.Untokenizer                                                    *)
(***************************************************************************)
RECURSIVE repeat(_, _)
repeat(string, n) == IF n <= 0 THEN <<>> ELSE string \o repeat(string, n - 1)

\* Untokenizer.add_whitespace
add_whitespace(u, start) ==
    IF start[1] < u.prev_row \/ (start[1] = u.prev_row /\ start[2] < u.prev_col)
    THEN [u EXCEPT !.error = "ValueError"]
    ELSE LET row_offset == start[1] - u.prev_row
             u1 == IF row_offset # 0
                   THEN [u EXCEPT !.tokens = Append(@, repeat(<<"\\", "\n">>, row_offset)),
                                  !.prev_col = 0]
                   ELSE u
             col_offset == start[2] - u1.prev_col
         IN  IF col_offset # 0
             THEN [u1 EXCEPT !.tokens = Append(@, repeat(<<" ">>, col_offset))]
             ELSE u1

\* Untokenizer.untokenize: the loop over the tokens, from token n
RECURSIVE untokenize(_, _, _)
untokenize(u, tokens, n) ==
    IF u.error # "none" \/ n > Len(tokens) THEN u
    ELSE LET t == tokens[n]
         IN  IF t.type = "ENDMARKER" THEN u
             ELSE IF t.type = "INDENT"
             THEN untokenize([u EXCEPT !.indents = Append(@, t.string)], tokens, n + 1)
             ELSE IF t.type = "DEDENT"
             THEN untokenize([u EXCEPT !.indents = SubSeq(@, 1, Len(@) - 1),
                                       !.prev_row = t.end[1], !.prev_col = t.end[2]],
                             tokens, n + 1)
             ELSE LET newline == t.type \in {"NEWLINE", "NL"}
                      indent == u.indents[Len(u.indents)]
                      u1 == IF newline THEN [u EXCEPT !.startline = TRUE]
                            ELSE IF u.startline /\ Len(u.indents) > 0
                            THEN IF t.start[2] >= Len(indent)
                                 THEN [u EXCEPT !.tokens = Append(@, indent),
                                                !.prev_col = Len(indent),
                                                !.startline = FALSE]
                                 ELSE [u EXCEPT !.startline = FALSE]
                            ELSE u
                      u2 == add_whitespace(u1, t.start)
                      u3 == [u2 EXCEPT !.tokens = Append(@, t.string),
                                       !.prev_row = t.end[1], !.prev_col = t.end[2]]
                  IN  IF u2.error # "none" THEN u2
                      ELSE untokenize(IF newline
                                      THEN [u3 EXCEPT !.prev_row = @ + 1, !.prev_col = 0]
                                      ELSE u3,
                                      tokens, n + 1)

\* Untokenizer().untokenize(generate_tokens(...)) then .tokens: the strings the
\* untokenizer collected, or the exception
untokenizer_tokens(program) ==
    LET g == generate_tokens(program)
        u == untokenize([tokens |-> <<>>, prev_row |-> 1, prev_col |-> 0, indents |-> <<>>,
                         startline |-> FALSE, error |-> "none"],
                        g.tokens, 1)
    IN  IF g.error # "none" THEN [error |-> g.error, tokens |-> <<>>]
        ELSE [error |-> u.error, tokens |-> IF u.error = "none" THEN u.tokens ELSE <<>>]

(***************************************************************************)
(* The state threaded through one request: the request's user object, the  *)
(* database row, the CodeEntry of the request, the side effects in the     *)
(* order they happen, the exception being raised and the returned value.   *)
(***************************************************************************)
NoEntry == [saved |-> FALSE]

\* a method that ends without a return statement returns None
ReturnsNone == [is_dict |-> FALSE, value |-> None]

NoTrace == [functions |-> <<>>, calls |-> <<>>]

NewContext(user, db) ==
    [user |-> user, db |-> db, entry |-> NoEntry, trace |-> NoTrace,
     events |-> <<>>, exc |-> "none", ret |-> ReturnsNone]

Ok(c) == c.exc = "none"

Raise(c, e) == IF Ok(c) THEN [c EXCEPT !.exc = e] ELSE c

\* return of a dict
Return(c, v) == IF Ok(c) THEN [c EXCEPT !.ret = [is_dict |-> TRUE, value |-> v]] ELSE c

Log(c, ev) == IF Ok(c) THEN [c EXCEPT !.events = Append(@, ev)] ELSE c

\* a save that writes only the entries of the request's user object and keeps
\* the entries another request has stored since
user_save_merge_mut(c, fault) ==
    IF ~Ok(c) THEN c
    ELSE IF c.user.is_anonymous THEN Raise(c, "NotImplementedError")
    ELSE IF fault = "user_save" THEN Raise(c, "DatabaseError")
    ELSE Log([c EXCEPT !.db =
                 [c.user EXCEPT !.pages_progress =
                     [k \in (DOMAIN c.db.pages_progress) \cup (DOMAIN c.user.pages_progress) |->
                         IF k \in DOMAIN c.user.pages_progress
                         THEN c.user.pages_progress[k]
                         ELSE c.db.pages_progress[k]]]],
             "user_save")

\* self.user.save(): writes the whole row of the request's user object
user_save(c, fault) ==
    IF ~Ok(c) THEN c
    ELSE IF c.user.is_anonymous THEN Raise(c, "NotImplementedError")
    ELSE IF fault = "user_save" THEN Raise(c, "DatabaseError")
    ELSE Log([c EXCEPT !.db = c.user], "user_save")

(***************************************************************************)
(* API.current_state                                                       *)
(***************************************************************************)
\* a 1-based position instead of the 0-based one
current_state_index_mut(step_names, step_name) ==
    IF PyIndex(step_names, step_name) < 0 THEN -1 ELSE PyIndex(step_names, step_name) + 1

\* page.step_names.index(pages_progress[page_slug]["step_name"])
current_state_index(step_names, step_name) == PyIndex(step_names, step_name)

current_state(c) ==
    IF ~Ok(c) THEN c
    ELSE IF c.user.is_anonymous THEN Raise(c, "AttributeError")
    ELSE LET progress ==
                 [i \in 1..NumPages |->
                     current_state_index(
                         pages[page_slugs_list[i]].step_names,
                         pages_progress_get(c.user, page_slugs_list[i]).step_name)]
         IN  IF \E i \in 1..NumPages : progress[i] < 0
             THEN Raise(c, "ValueError")
             ELSE Return(c, [pages_progress |-> progress])

(***************************************************************************)
(* API.move_step                                                           *)
(***************************************************************************)
\* the step names of the first page, whatever page is asked for
move_step_names_mut(page_index) == pages[page_slugs_list[1]].step_names

\* page_slug = page_slugs_list[page_index]; step_names = pages[page_slug].step_names
move_step_names(page_index) == pages[PyGet(page_slugs_list, page_index)].step_names

\* the bound len(step_names) taken as a valid index
move_step_in_range_mut(step_index, step_names) ==
    0 <= step_index /\ step_index <= Len(step_names)

\* the lower bound left out
move_step_in_range_upper_mut(step_index, step_names) ==
    step_index < Len(step_names)

\* 0 <= step_index < len(step_names)
move_step_in_range(step_index, step_names) ==
    0 <= step_index /\ step_index < Len(step_names)

\* the step before the one asked for
move_step_new_step_name_mut(step_names, step_index) == PyGet(step_names, step_index - 1)

\* new_step_name = step_names[step_index]
move_step_new_step_name(step_names, step_index) == PyGet(step_names, step_index)

move_step(c, page_index, step_index, fault) ==
    IF ~Ok(c) THEN c
    ELSE IF ~PyInRange(page_slugs_list, page_index) THEN Raise(c, "IndexError")
    ELSE LET page_slug == PyGet(page_slugs_list, page_index)
             step_names == move_step_names(page_index)
             called == Log(c, "move_step")
         IN  IF move_step_in_range(step_index, step_names)
             THEN IF ~PyInRange(step_names, step_index) THEN Raise(called, "IndexError")
                  ELSE IF c.user.is_anonymous THEN Raise(called, "AttributeError")
                  ELSE LET new_step_name ==
                               move_step_new_step_name(step_names, step_index)
                           changed ==
                               [called EXCEPT !.user =
                                   pages_progress_set(@, page_slug, new_step_name)]
                       IN  current_state(user_save(changed, fault))
             ELSE current_state(called)

(***************************************************************************)
(* API.set_page, API.set_developer_mode                                    *)
(***************************************************************************)
\* the slug of the page after the one asked for
set_page_next_mut(c, index, fault) ==
    IF ~Ok(c) THEN c
    ELSE IF ~PyInRange(page_slugs_list, index) THEN Raise(c, "IndexError")
    ELSE IF c.user.is_anonymous
    THEN user_save(c, fault)
    ELSE user_save([c EXCEPT !.user.page_slug =
                       page_slugs_list[((index + 1) % NumPages) + 1]], fault)

set_page(c, index, fault) ==
    IF ~Ok(c) THEN c
    ELSE IF ~PyInRange(page_slugs_list, index) THEN Raise(c, "IndexError")
    ELSE IF c.user.is_anonymous
    THEN user_save(c, fault)
    ELSE user_save([c EXCEPT !.user.page_slug = PyGet(page_slugs_list, index)], fault)

set_developer_mode(c, value, fault) ==
    IF ~Ok(c) THEN c
    ELSE IF c.user.is_anonymous
    THEN user_save(c, fault)
    ELSE user_save([c EXCEPT !.user.developer_mode = value], fault)

(***************************************************************************)
(* API.load_data                                                           *)
(***************************************************************************)
load_data(c) ==
    IF ~Ok(c) THEN c
    ELSE IF c.user.is_anonymous THEN Return(c, EmptyDict)
    ELSE LET state == current_state(c)
         IN  IF ~Ok(state) THEN state
             ELSE IF c.user.page_slug \notin DOMAIN pages THEN Raise(c, "KeyError")
             ELSE Return(c,
                     [pages |-> [i \in 1..NumPages |->
                                    [slug |-> pages[page_slugs_list[i]].slug,
                                     title |-> pages[page_slugs_list[i]].title,
                                     index |-> pages[page_slugs_list[i]].index,
                                     steps |-> pages[page_slugs_list[i]].step_names]],
                      state |-> state.ret.value,
                      user |-> [email |-> "learner@example.com",
                                developerMode |-> c.user.developer_mode],
                      page_index |-> pages[c.user.page_slug].index])

\* the indices counted from 1
RECURSIVE non_space_indices_mut(_, _)
non_space_indices_mut(tokens, n) ==
    IF n = 0 THEN <<>>
    ELSE IF isspace(tokens[n])
    THEN non_space_indices_mut(tokens, n - 1)
    ELSE Append(non_space_indices_mut(tokens, n - 1), n)

(***************************************************************************)
(* API.get_solution                                                        *)
(***************************************************************************)
\* the 0-based indices i, ascending, with not tokens[i].isspace()
RECURSIVE non_space_indices(_, _)
non_space_indices(tokens, n) ==
    IF n = 0 THEN <<>>
    ELSE IF isspace(tokens[n])
    THEN non_space_indices(tokens, n - 1)
    ELSE Append(non_space_indices(tokens, n - 1), n - 1)

\* the orders random.shuffle can leave a list of n elements in
Shuffles(n) == {f \in [1..n -> 1..n] : \A i, j \in 1..n : f[i] = f[j] => i = j}

shuffle(seq, rnd) == [i \in 1..Len(seq) |-> seq[rnd[i]]]

\* the token list of the request's step; the empty list when the indices are invalid
solution_tokens(page_index, step_index) ==
    IF ~PyInRange(page_slugs_list, page_index) THEN <<>>
    ELSE LET page_slug == PyGet(page_slugs_list, page_index)
         IN  IF ~PyInRange(pages[page_slug].step_names, step_index) THEN <<>>
             ELSE LET step == step_class(page_slug,
                                         PyGet(pages[page_slug].step_names, step_index))
                  IN  untokenizer_tokens(IF step.is_exercise
                                         THEN clean_program(step.solution)
                                         ELSE step.program).tokens

\* the tokens get_solution would shuffle for a request, none for another method
solution_tokens_of(request) ==
    IF request.method_name = "get_solution"
    THEN solution_tokens(request.args.page_index, request.args.step_index)
    ELSE <<>>

get_solution(c, page_index, step_index, rnd) ==
    IF ~Ok(c) THEN c
    ELSE IF ~PyInRange(page_slugs_list, page_index) THEN Raise(c, "IndexError")
    ELSE IF ~PyInRange(pages[PyGet(page_slugs_list, page_index)].step_names, step_index)
    THEN Raise(c, "IndexError")
    ELSE LET step == step_class(PyGet(page_slugs_list, page_index),
                                PyGet(pages[PyGet(page_slugs_list, page_index)].step_names,
                                      step_index))
             program == IF step.is_exercise THEN clean_program(step.solution)
                        ELSE step.program
             untokenizer == untokenizer_tokens(program)
             tokens == untokenizer.tokens
             masked_indices == non_space_indices(tokens, Len(tokens))
             mask == [i \in 1..Len(tokens) |-> ~isspace(tokens[i])]
         IN  IF untokenizer.error # "none" THEN Raise(c, untokenizer.error)
             ELSE Return(c, [tokens |-> tokens,
                             maskedIndices |-> shuffle(masked_indices, rnd),
                             mask |-> mask])

(***************************************************************************)
(* API.submit_feedback                                                     *)
(***************************************************************************)
submit_feedback(c, fault) ==
    IF ~Ok(c) THEN c
    ELSE IF c.user.is_anonymous THEN Raise(c, "AttributeError")
    ELSE IF fault = "github" THEN Raise(Log(c, "github_post"), "AssertionError")
    ELSE Log(c, "github_post")

(***************************************************************************)
(* API.run_code: the birdseye objects of a result                          *)
(***************************************************************************)
\* result["birdseye_objects"] is None
NoBirdseye == [is_none |-> TRUE, functions |-> <<>>, calls |-> <<>>]

\* the worker numbers the functions of one run 1, 2, ...; a call carries its
\* own id (a uuid) and the worker's id of its function
BirdseyeObjects ==
    {NoBirdseye} \cup
    {[is_none |-> FALSE,
      functions |-> [i \in 1..nf |-> [id |-> i, lineno |-> 10 * i]],
      calls |-> [k \in 1..Len(refs) |->
                    [id |-> "call" \o ToString(k), function_id |-> refs[k],
                     start_time |-> "2020-05-01T10:00:00"]]] :
        nf \in 0..MaxFuncs,
        refs \in UNION {[1..n -> 1..MaxFuncs] : n \in 0..MaxCalls}}

\* datetime.fromisoformat
fromisoformat(text) == [datetime |-> text]

\* {old: func.id for old, func in zip(function_ids, functions)}; 0 for a KeyError
function_ids_get(functions, rows, old) ==
    IF \E i \in 1..Len(functions) : functions[i].id = old
    THEN rows[CHOOSE i \in 1..Len(functions) :
                  functions[i].id = old
                  /\ \A j \in (i + 1)..Len(functions) : functions[j].id # old].id
    ELSE 0

\* the calls loop: the rows added before the first KeyError
RECURSIVE add_calls(_, _, _, _)
add_calls(functions, rows, calls, n) ==
    IF n = 0 THEN [exc |-> "none", rows |-> <<>>]
    ELSE LET before == add_calls(functions, rows, calls, n - 1)
             new_id == function_ids_get(functions, rows, calls[n].function_id)
         IN  IF before.exc # "none" THEN before
             ELSE IF new_id = 0 THEN [before EXCEPT !.exc = "KeyError"]
             ELSE [before EXCEPT !.rows =
                      Append(@, [id |-> calls[n].id, function_id |-> new_id,
                                 start_time |-> fromisoformat(calls[n].start_time)])]

\* the birdseye block; last_id is the highest Function id of the trace store,
\* which all learners share.  The value returned is the birdseye_url.
register_trace(c, birdseye_objects, last_id, fault) ==
    IF ~Ok(c) THEN c
    ELSE IF birdseye_objects.is_none THEN Return(c, None)
    ELSE LET functions == birdseye_objects.functions
             rows == [i \in 1..Len(functions) |->
                         [id |-> last_id + i, lineno |-> functions[i].lineno,
                          hash |-> "uuid4"]]
             calls == birdseye_objects.calls
             added == add_calls(functions, rows, calls, Len(calls))
             committed == Log([c EXCEPT !.trace.functions = rows], "trace_functions")
         IN  IF fault = "trace_store" THEN Raise(c, "OperationalError")
             ELSE IF added.exc # "none" THEN Raise(committed, added.exc)
             ELSE IF Len(calls) = 0
             THEN Raise(Log(committed, "trace_calls"), "UnboundLocalError")
             ELSE Return(Log([committed EXCEPT !.trace.calls = added.rows], "trace_calls"),
                         "/birdseye/ipython_call/" \o added.rows[Len(added.rows)].id)

(***************************************************************************)
(* API.run_code                                                            *)
(***************************************************************************)
\* the fragments a program prints, in the order it prints them
Printed(n) ==
    [i \in 1..n |-> [text |-> "line " \o ToString(i) \o "\n",
                     color |-> IF i % 2 = 1 THEN "white" ELSE "red"]]

\* the results worker_result can return
WorkerResults ==
    [output_parts : {Printed(n) : n \in 0..MaxParts},
     output : {"hi\n"},
     error : {None, "worker died"},
     passed : BOOLEAN,
     awaiting_input : BOOLEAN,
     message : {"Well done!"},
     birdseye_objects : BirdseyeObjects]

\* truth value of result["error"]
error_is_set(error) == error # None /\ error # ""

markdown(message) == "<p>" \o message \o "</p>"

\* up to the call of worker_result
run_code_begin(c, args, save_code_entries, fault) ==
    IF ~Ok(c) THEN c
    ELSE IF ~PyInRange(page_slugs_list, args.page_index) THEN Raise(c, "IndexError")
    ELSE LET page_slug == PyGet(page_slugs_list, args.page_index)
             step_names == pages[page_slug].step_names
         IN  IF ~PyInRange(step_names, args.step_index) THEN Raise(c, "IndexError")
             ELSE LET entry_dict ==
                          [input |-> args.code, source |-> args.source,
                           page_slug |-> page_slug,
                           step_name |-> PyGet(step_names, args.step_index),
                           user_id |-> IF c.user.is_anonymous THEN None ELSE "learner"]
                      created ==
                          IF ~save_code_entries THEN c
                          ELSE IF fault = "entry_create" THEN Raise(c, "DatabaseError")
                          ELSE Log([c EXCEPT !.entry =
                                       [saved |-> TRUE, fields |-> entry_dict,
                                        output |-> None]],
                                   "entry_create")
                  IN  Log(created, "worker_call")

\* the step just passed instead of the next one
run_code_advance_same_mut(c, args, result, fault) ==
    IF result.passed
    THEN move_step(c, args.page_index, args.step_index, fault)
    ELSE c

\* the next step whether the code passed or not
run_code_advance_always_mut(c, args, result, fault) ==
    move_step(c, args.page_index, args.step_index + 1, fault)

\* the test of passed inverted
run_code_advance_failed_mut(c, args, result, fault) ==
    IF ~result.passed
    THEN move_step(c, args.page_index, args.step_index + 1, fault)
    ELSE c

\* if passed := result["passed"]: self.move_step(page_index, step_index + 1)
run_code_advance(c, args, result, fault) ==
    IF result.passed
    THEN move_step(c, args.page_index, args.step_index + 1, fault)
    ELSE c

\* the prompt appended whatever awaiting_input is
run_code_output_parts_mut(result) ==
    Append(result.output_parts, [text |-> ">>> ", color |-> "white"])

\* lines 96-98: output_parts, with the prompt unless input is awaited
run_code_output_parts(result) ==
    IF ~result.awaiting_input
    THEN Append(result.output_parts, [text |-> ">>> ", color |-> "white"])
    ELSE result.output_parts

\* progress advanced before the error of the result is looked at
run_code_steps_late_check_mut ==
    <<"entry_update", "advance", "check_error", "birdseye", "respond">>

\* progress advanced before the entry is updated
run_code_steps_early_advance_mut ==
    <<"advance", "entry_update", "check_error", "birdseye", "respond">>

\* the error of the result returned before the entry is updated
run_code_steps_error_first_mut ==
    <<"check_error", "entry_update", "advance", "birdseye", "respond">>

\* progress advanced a second time
run_code_steps_advance_twice_mut ==
    <<"entry_update", "check_error", "advance", "advance", "birdseye", "respond">>

\* the steps of run_code after worker_result has returned, in source order
run_code_steps == <<"entry_update", "check_error", "advance", "birdseye", "respond">>

RECURSIVE run_code_from(_, _, _, _, _, _, _)
run_code_from(c, n, args, result, save_code_entries, last_id, fault) ==
    IF ~Ok(c) \/ n > Len(run_code_steps) THEN c
    ELSE LET step == run_code_steps[n]
             next(d) == run_code_from(d, n + 1, args, result, save_code_entries,
                                      last_id, fault)
         IN  IF step = "entry_update"
             THEN IF ~save_code_entries THEN next(c)
                  ELSE IF fault = "entry_save" THEN Raise(c, "DatabaseError")
                  ELSE next(Log([c EXCEPT !.entry.output = result.output],
                                "entry_update"))
             ELSE IF step = "check_error"
             THEN IF error_is_set(result.error)
                  THEN Return(c, [error |-> result.error])
                  ELSE next(c)
             ELSE IF step = "advance"
             THEN next(run_code_advance(c, args, result, fault))
             ELSE IF step = "birdseye"
             THEN next(register_trace(c, result.birdseye_objects, last_id, fault))
             ELSE LET state == current_state(c)
                  IN  IF ~Ok(state) THEN state
                      ELSE Return(Log(c, "respond"),
                                  [result |-> run_code_output_parts(result),
                                   message |-> markdown(result.message),
                                   state |-> state.ret.value,
                                   birdseye_url |-> c.ret.value,
                                   passed |-> result.passed])

\* from the return of worker_result to the return of run_code
run_code_end(c, args, result, save_code_entries, last_id, fault) ==
    IF fault = "worker" THEN Raise(c, "ConnectionError")
    ELSE run_code_from(Log(c, "worker_result"), 1, args, result, save_code_entries,
                       last_id, fault)

(***************************************************************************)
(* api_view                                                                *)
(***************************************************************************)
MethodNames == {"run_code", "load_data", "set_developer_mode", "current_state",
                "move_step", "set_page", "get_solution", "submit_feedback"}

\* the parameters of each method of API
Params(method_name) ==
    CASE method_name = "run_code" -> {"code", "source", "page_index", "step_index"}
      [] method_name = "set_developer_mode" -> {"value"}
      [] method_name \in {"move_step", "get_solution"} -> {"page_index", "step_index"}
      [] method_name = "set_page" -> {"index"}
      [] method_name = "submit_feedback" -> {"title", "description", "state"}
      [] OTHER -> {}

\* get_type_hints(method), without 'return'
TypeHints(method_name) ==
    CASE method_name \in {"move_step", "get_solution"} -> {"step_index"}
      [] method_name = "set_developer_mode" -> {"value"}
      [] OTHER -> {}

PageIndices == -1..NumPages

StepIndices == -1..MaxSteps

\* the decoded bodies that name every parameter of the method
FullArgs(method_name) ==
    CASE method_name = "run_code" ->
            {[code |-> "print('hi')", source |-> "shell",
              page_index |-> p, step_index |-> s] :
                p \in PageIndices, s \in StepIndices}
      [] method_name = "set_developer_mode" -> {[value |-> v] : v \in BOOLEAN}
      [] method_name \in {"move_step", "get_solution"} ->
            {[page_index |-> p, step_index |-> s] :
                p \in PageIndices, s \in StepIndices}
      [] method_name = "set_page" -> {[index |-> p] : p \in PageIndices}
      [] method_name = "submit_feedback" ->
            {[title |-> "Bug", description |-> "It broke", state |-> "{}"]}
      [] OTHER -> {EmptyDict}

Without(args, name) == [k \in (DOMAIN args) \ {name} |-> args[k]]

\* the requests a client can send: a method name, a body that decodes or not,
\* and arguments complete or lacking one
Requests ==
    {[method_name |-> "no_such_method", body |-> "json", args |-> EmptyDict]}
    \cup {[method_name |-> m, body |-> b, args |-> EmptyDict] :
            m \in MethodNames, b \in {"not_utf8", "not_json"}}
    \cup UNION {{[method_name |-> m, body |-> "json", args |-> a] :
                    a \in FullArgs(m)} : m \in MethodNames}
    \cup UNION {UNION {{[method_name |-> m, body |-> "json", args |-> Without(a, k)] :
                          k \in Params(m)} : a \in FullArgs(m)} : m \in MethodNames}

\* from getattr to the binding of the arguments in method(**args): the
\* exception raised there, or "none"
api_view_prepare(request) ==
    IF request.method_name \notin MethodNames THEN "AttributeError"
    ELSE IF request.body = "not_utf8" THEN "UnicodeDecodeError"
    ELSE IF request.body = "not_json" THEN "JSONDecodeError"
    ELSE IF \E name \in TypeHints(request.method_name) : name \notin DOMAIN request.args
    THEN "KeyError"
    ELSE IF DOMAIN request.args # Params(request.method_name) THEN "TypeError"
    ELSE "none"

\* the except clause
api_view_except(c) ==
    [c EXCEPT !.events = Append(@, "capture_exception"),
              !.ret = [is_dict |-> TRUE, value |-> [error |-> [traceback |-> c.exc]]]]

\* every value wrapped, a dict included
api_view_finish_mut(c) ==
    IF ~Ok(c) THEN api_view_except(c)
    ELSE [c EXCEPT !.ret = [is_dict |-> TRUE, value |-> [result |-> c.ret.value]]]

\* from the return of the method to JsonResponse(result)
api_view_finish(c) ==
    IF ~Ok(c) THEN api_view_except(c)
    ELSE IF ~c.ret.is_dict
    THEN [c EXCEPT !.ret = [is_dict |-> TRUE, value |-> [result |-> c.ret.value]]]
    ELSE c

\* result = method(**args) for the methods that do not call the worker
call_method(c, request, rnd, fault) ==
    LET args == request.args
    IN  CASE request.method_name = "load_data" -> load_data(c)
          [] request.method_name = "set_developer_mode" ->
                set_developer_mode(c, args.value, fault)
          [] request.method_name = "current_state" -> current_state(c)
          [] request.method_name = "move_step" ->
                move_step(c, args.page_index, args.step_index, fault)
          [] request.method_name = "set_page" -> set_page(c, args.index, fault)
          [] request.method_name = "get_solution" ->
                get_solution(c, args.page_index, args.step_index, rnd)
          [] request.method_name = "submit_feedback" -> submit_feedback(c, fault)

(***************************************************************************)
(* The request-handling threads                                            *)
(***************************************************************************)
Threads == {"r1", "r2"}

NoRequest == [method_name |-> "none", body |-> "json", args |-> EmptyDict]

\* no result of worker_result: the request never got one
NoResult == [is_none |-> TRUE]

Idle ==
    [pc |-> "idle", request |-> NoRequest, loaded |-> AnonymousUser,
     user |-> AnonymousUser, entry |-> NoEntry, trace |-> NoTrace, events |-> <<>>, exc |-> "none",
     result |-> NoResult, response |-> EmptyDict]

\* the request's state once the method has returned or raised
Finished(r, c, result) ==
    LET done == api_view_finish(c)
    IN  [r EXCEPT !.pc = "done", !.user = done.user, !.entry = done.entry,
                  !.trace = done.trace, !.events = done.events, !.exc = done.exc,
                  !.result = result, !.response = done.ret.value]

\* the context of a request whose method is running
Context(r, db) ==
    [NewContext(r.user, db) EXCEPT !.entry = r.entry, !.events = r.events]

Init ==
    /\ stored = NewUser
    /\ settings \in [SAVE_CODE_ENTRIES : BOOLEAN]
    /\ program_text = Chars("x + x\n")
    /\ req = [t \in Threads |-> Idle]

\* a request arrives: api_view up to the method call, and run_code up to the
\* call of worker_result; the request's user object is loaded from the row
DispatchOf(t, requests, anonymity, faults) ==
    /\ req[t].pc = "idle"
    /\ \E request \in requests, anonymous \in anonymity, fault \in faults :
         LET user == IF anonymous THEN AnonymousUser ELSE stored
             c0 == [NewContext(user, stored) EXCEPT !.exc = api_view_prepare(request)]
             r0 == [Idle EXCEPT !.request = request, !.loaded = user, !.user = user]
             c1 == run_code_begin(c0, request.args, settings.SAVE_CODE_ENTRIES, fault)
         IN  IF ~Ok(c0)
             THEN req' = [req EXCEPT ![t] = Finished(r0, c0, NoResult)]
             ELSE IF request.method_name # "run_code"
             THEN req' = [req EXCEPT ![t] = [r0 EXCEPT !.pc = "in_method"]]
             ELSE IF ~Ok(c1)
             THEN req' = [req EXCEPT ![t] = Finished(r0, c1, NoResult)]
             ELSE req' = [req EXCEPT ![t] =
                             [r0 EXCEPT !.pc = "in_worker", !.entry = c1.entry,
                                        !.events = c1.events]]
    /\ UNCHANGED <<stored, settings, program_text>>

Dispatch(t) == DispatchOf(t, Requests, BOOLEAN, {"none", "entry_create"})

\* the method runs on the request's user object and api_view builds its result
RunMethodOf(t, faults) ==
    /\ req[t].pc = "in_method"
    /\ \E fault \in faults,
          rnd \in Shuffles(Len(non_space_indices(
                      solution_tokens_of(req[t].request),
                      Len(solution_tokens_of(req[t].request))))) :
         LET c == call_method(Context(req[t], stored), req[t].request, rnd, fault)
         IN  /\ req' = [req EXCEPT ![t] = Finished(req[t], c, NoResult)]
             /\ stored' = c.db
    /\ UNCHANGED <<settings, program_text>>

RunMethod(t) == RunMethodOf(t, {"none", "user_save", "github"})

\* the collaborators run_code calls once worker_result has returned this result
FaultsAfter(result, save_code_entries) ==
    {"none"}
    \cup (IF save_code_entries THEN {"entry_save"} ELSE {})
    \cup (IF result.passed /\ ~error_is_set(result.error) THEN {"user_save"} ELSE {})
    \cup (IF ~result.birdseye_objects.is_none /\ ~error_is_set(result.error)
          THEN {"trace_store"} ELSE {})

\* the highest Function id of the trace store when this result is registered:
\* an empty store, or one that other requests have filled
LastIds(result) ==
    IF Len(result.birdseye_objects.functions) = 0 \/ error_is_set(result.error)
    THEN {0}
    ELSE {0, MaxLastId}

\* worker_result raises instead of returning
WorkerFails(t) ==
    /\ req[t].pc = "in_worker"
    /\ LET c == run_code_end(Context(req[t], stored), req[t].request.args, NoResult,
                             settings.SAVE_CODE_ENTRIES, 0, "worker")
       IN  req' = [req EXCEPT ![t] = Finished(req[t], c, NoResult)]
    /\ UNCHANGED <<stored, settings, program_text>>

\* worker_result returns, the rest of run_code runs and api_view builds its result
WorkerResultOf(t, results, faults) ==
    /\ req[t].pc = "in_worker"
    /\ \E result \in results :
         \E last_id \in LastIds(result),
            fault \in FaultsAfter(result, settings.SAVE_CODE_ENTRIES) \cap faults :
           LET c == run_code_end(Context(req[t], stored), req[t].request.args, result,
                                 settings.SAVE_CODE_ENTRIES, last_id, fault)
           IN  /\ req' = [req EXCEPT ![t] = Finished(req[t], c, result)]
               /\ stored' = c.db
    /\ UNCHANGED <<settings, program_text>>

WorkerResult(t) ==
    WorkerResultOf(t, WorkerResults, {"none", "entry_save", "user_save", "trace_store"})

\* return JsonResponse(result): the thread is free for the next request
Respond(t) ==
    /\ req[t].pc = "done"
    /\ req' = [req EXCEPT ![t] = Idle]
    /\ UNCHANGED <<stored, settings, program_text>>

\* requests are handled one at a time
Next ==
    \/ Dispatch("r1")
    \/ RunMethod("r1")
    \/ WorkerFails("r1")
    \/ WorkerResult("r1")
    \/ Respond("r1")

Spec == Init /\ [][Next]_vars

(***************************************************************************)
(* Two requests of one learner in flight at once.  Each loads its own user *)
(* object when it arrives and self.user.save() writes that whole object.   *)
(* The requests are run_code and move_step on pages of the catalog, the    *)
(* collaborators do not fail, and the worker returns results without       *)
(* birdseye objects.                                                       *)
(***************************************************************************)
ConcRequests ==
    {request \in Requests :
        /\ request.method_name \in {"run_code", "move_step"}
        /\ request.body = "json"
        /\ DOMAIN request.args = Params(request.method_name)
        /\ request.args.page_index \in 0..(NumPages - 1)
        /\ request.args.step_index \in 0..MaxSteps}

ConcWorkerResults ==
    {result \in WorkerResults :
        /\ result.birdseye_objects.is_none
        /\ result.output_parts = <<>>
        /\ ~result.awaiting_input}

ConcDispatch(t) == DispatchOf(t, ConcRequests, {FALSE}, {"none"})

ConcRunMethod(t) == RunMethodOf(t, {"none"})

ConcWorkerResult(t) == WorkerResultOf(t, ConcWorkerResults, {"none"})

ConcRespond(t) == Respond(t)

ConcNext ==
    \E t \in Threads :
        \/ ConcDispatch(t)
        \/ ConcRunMethod(t)
        \/ ConcWorkerResult(t)
        \/ ConcRespond(t)

ConcSpec == Init /\ [][ConcNext]_vars

(***************************************************************************)
(* get_solution on every program text of at most MaxProgram characters     *)
(* that the catalog can hold.                                              *)
(***************************************************************************)
Alphabet == {"x", "+", " ", "\t", "\n", "\\"}

Programs == UNION {[1..n -> Alphabet] : n \in 0..MaxProgram}

TokRequests ==
    {request \in Requests :
        /\ request.method_name = "get_solution"
        /\ request.body = "json"
        /\ DOMAIN request.args = Params("get_solution")
        /\ request.args.page_index = 0
        /\ request.args.step_index \in 0..1}

TokInit ==
    /\ stored = NewUser
    /\ settings = [SAVE_CODE_ENTRIES |-> FALSE]
    /\ program_text \in Programs
    /\ req = [t \in Threads |-> Idle]

TokDispatch(t) == DispatchOf(t, TokRequests, {FALSE}, {"none"})

TokRunMethod(t) == RunMethodOf(t, {"none"})

TokRespond(t) == Respond(t)

TokNext ==
    \/ TokDispatch("r1")
    \/ TokRunMethod("r1")
    \/ TokRespond("r1")

TokSpec == TokInit /\ [][TokNext]_vars

(***************************************************************************)
(* Vocabulary of the properties                                            *)
(***************************************************************************)
Occurs(events, ev) == \E i \in 1..Len(events) : events[i] = ev

\* the request of thread t has been answered
Done(t) == req[t].pc = "done"

Method(t) == req[t].request.method_name

\* a run_code request of a logged-in learner for which worker_result returned
Submitted(t) ==
    /\ Done(t)
    /\ Method(t) = "run_code"
    /\ "error" \in DOMAIN req[t].result
    /\ ~req[t].loaded.is_anonymous

\* a move_step request of a logged-in learner that reached the method
Moved(t) ==
    /\ Done(t)
    /\ Method(t) = "move_step"
    /\ DOMAIN req[t].request.args = Params("move_step")
    /\ ~req[t].loaded.is_anonymous

ValidPage(page_index) == 0 <= page_index /\ page_index < NumPages

StepCount(page_index) == Len(pages[page_slugs_list[page_index + 1]].step_names)

\* the 0-based step index a user row records for the page at a catalog
\* position, 0 for a page without an entry
RecordedIndex(user, page_index) ==
    LET slug == page_slugs_list[page_index + 1]
    IN  IF slug \in DOMAIN user.pages_progress
        THEN CHOOSE k \in -1..(StepCount(page_index) - 1) :
                 \/ k >= 0 /\ pages[slug].step_names[k + 1] = user.pages_progress[slug]
                 \/ k = -1 /\ \A j \in 1..StepCount(page_index) :
                                 pages[slug].step_names[j] # user.pages_progress[slug]
        ELSE 0

\* the snapshot of a user row: one recorded index per page, in catalog order
Snapshot(user) == [pages_progress |-> [i \in 1..NumPages |-> RecordedIndex(user, i - 1)]]

(***************************************************************************)
(* C1: a run_code whose result has error set, whatever passed and          *)
(* awaiting_input are, never calls move_step, leaves the stored user as it *)
(* was loaded, and answers with the error field and nothing else.          *)
(***************************************************************************)
C1_ErrorShortCircuits ==
    \A t \in Threads :
        (Submitted(t) /\ error_is_set(req[t].result.error)) =>
            /\ ~Occurs(req[t].events, "move_step")
            /\ ~Occurs(req[t].events, "user_save")
            /\ stored = req[t].loaded
            /\ DOMAIN req[t].response = {"error"}
            /\ req[t].exc = "none" => req[t].response.error = req[t].result.error

\* an error result that also says passed, on a step that could be advanced
C1_Witness ==
    \E t \in Threads :
        /\ Submitted(t)
        /\ error_is_set(req[t].result.error)
        /\ req[t].result.passed
        /\ req[t].exc = "none"
        /\ req[t].request.args.page_index = 0
        /\ req[t].request.args.step_index = 0
        /\ "intro" \in DOMAIN stored.pages_progress
        /\ DOMAIN req[t].response = {"error"}

(***************************************************************************)
(* C2: a passing run_code without error on a valid (page_index,            *)
(* step_index) with step_index + 1 < the page's step count records         *)
(* step_index + 1 for the page, and the state of its response shows        *)
(* step_index + 1 at the page's position.                                  *)
(***************************************************************************)
C2_PassAdvances ==
    \A t \in Threads :
        LET args == req[t].request.args
        IN  (/\ Submitted(t)
             /\ ~error_is_set(req[t].result.error)
             /\ req[t].result.passed
             /\ ValidPage(args.page_index)
             /\ 0 <= args.step_index
             /\ args.step_index + 1 < StepCount(args.page_index)) =>
                /\ Occurs(req[t].events, "user_save") =>
                      RecordedIndex(stored, args.page_index) = args.step_index + 1
                /\ req[t].exc = "none" =>
                      /\ Occurs(req[t].events, "user_save")
                      /\ page_slugs_list[args.page_index + 1] \in DOMAIN stored.pages_progress
                      /\ req[t].response.state.pages_progress[args.page_index + 1]
                             = args.step_index + 1
                      /\ req[t].response.passed

\* the scenario of the first page: step 0 passed, the response shows 1
C2_Witness ==
    \E t \in Threads :
        /\ Submitted(t)
        /\ req[t].exc = "none"
        /\ ~error_is_set(req[t].result.error)
        /\ req[t].result.passed
        /\ req[t].request.args.page_index = 0
        /\ req[t].request.args.step_index = 0
        /\ "intro" \notin DOMAIN req[t].loaded.pages_progress
        /\ req[t].response.state.pages_progress[1] = 1
        /\ stored.pages_progress["intro"] = "hello_world"

(***************************************************************************)
(* C3: move_step on a valid page with 0 <= step_index < the page's step    *)
(* count records step_names[step_index] for the page, leaves the entry of  *)
(* every other page as it was, and returns a snapshot with step_index at   *)
(* the page's position.                                                    *)
(***************************************************************************)
C3_MoveStepRecords ==
    \A t \in Threads :
        LET args == req[t].request.args
            slug == page_slugs_list[args.page_index + 1]
        IN  (/\ Moved(t)
             /\ ValidPage(args.page_index)
             /\ 0 <= args.step_index
             /\ args.step_index < StepCount(args.page_index)) =>
                /\ req[t].exc \in {"none", "DatabaseError"}
                /\ req[t].exc = "none" =>
                      /\ slug \in DOMAIN stored.pages_progress
                      /\ stored.pages_progress[slug]
                             = pages[slug].step_names[args.step_index + 1]
                      /\ \A other \in Slugs \ {slug} :
                            /\ other \in DOMAIN stored.pages_progress
                                   <=> other \in DOMAIN req[t].loaded.pages_progress
                            /\ other \in DOMAIN stored.pages_progress =>
                                   stored.pages_progress[other]
                                       = req[t].loaded.pages_progress[other]
                      /\ stored.page_slug = req[t].loaded.page_slug
                      /\ req[t].response.pages_progress[args.page_index + 1]
                             = args.step_index
                      /\ req[t].response = Snapshot(stored)

\* a move to the last step of the second page while the first page has an entry
C3_Witness ==
    \E t \in Threads :
        /\ Moved(t)
        /\ req[t].exc = "none"
        /\ req[t].request.args.page_index = 1
        /\ req[t].request.args.step_index = 1
        /\ "intro" \in DOMAIN req[t].loaded.pages_progress
        /\ req[t].loaded.pages_progress["intro"] = "final_text"
        /\ "loops" \notin DOMAIN req[t].loaded.pages_progress
        /\ stored.pages_progress["loops"] = "final_text"
        /\ req[t].response.pages_progress = <<2, 1>>

(***************************************************************************)
(* C4: move_step with a step_index outside [0, step count) records         *)
(* nothing, saves nothing, raises nothing and returns the snapshot of the  *)
(* unchanged progress; so does the move_step of a passing run_code on the  *)
(* last step of a page.                                                    *)
(***************************************************************************)
C4_OutOfRangeIsNoOp ==
    \A t \in Threads :
        LET args == req[t].request.args
        IN  /\ (/\ Moved(t)
                /\ ValidPage(args.page_index)
                /\ ~(0 <= args.step_index /\ args.step_index < StepCount(args.page_index))) =>
                   /\ stored = req[t].loaded
                   /\ ~Occurs(req[t].events, "user_save")
                   /\ req[t].exc = "none"
                   /\ req[t].response = Snapshot(req[t].loaded)
            /\ (/\ Submitted(t)
                /\ ~error_is_set(req[t].result.error)
                /\ req[t].result.passed
                /\ ValidPage(args.page_index)
                /\ args.step_index + 1 = StepCount(args.page_index)) =>
                   /\ stored = req[t].loaded
                   /\ ~Occurs(req[t].events, "user_save")
                   /\ req[t].exc \notin {"IndexError", "ValueError", "AttributeError"}
                   /\ req[t].exc = "none" =>
                         /\ Occurs(req[t].events, "move_step")
                         /\ req[t].response.state = Snapshot(req[t].loaded)

\* a passing run_code on the last step of the first page, which has an entry
C4_Witness ==
    \E t \in Threads :
        /\ Submitted(t)
        /\ req[t].exc = "none"
        /\ ~error_is_set(req[t].result.error)
        /\ req[t].result.passed
        /\ req[t].request.args.page_index = 0
        /\ req[t].request.args.step_index = 2
        /\ Occurs(req[t].events, "move_step")
        /\ "intro" \in DOMAIN stored.pages_progress
        /\ stored.pages_progress["intro"] = "hello_world"
        /\ req[t].response.state.pages_progress[1] = 1

(***************************************************************************)
(* C5: every step name a user row records for a page, in the database and  *)
(* in the user object of a request, is one of the step names of that page. *)
(***************************************************************************)
StepsInRange(user) ==
    \A slug \in DOMAIN user.pages_progress :
        /\ slug \in Slugs
        /\ \E k \in 1..Len(pages[slug].step_names) :
              pages[slug].step_names[k] = user.pages_progress[slug]

C5_RecordedStepsInRange ==
    /\ StepsInRange(stored)
    /\ \A t \in Threads : ~req[t].user.is_anonymous => StepsInRange(req[t].user)

\* both pages are at their last step and a move past the end has been asked for
C5_Witness ==
    \E t \in Threads :
        /\ Moved(t)
        /\ req[t].request.args.page_index = 1
        /\ req[t].request.args.step_index = 2
        /\ DOMAIN stored.pages_progress = Slugs
        /\ stored.pages_progress["intro"] = "final_text"
        /\ stored.pages_progress["loops"] = "final_text"

(***************************************************************************)
(* C6: the side effects of one run_code happen in this order: the entry is *)
(* created (when entries are saved), the worker is called, the entry is    *)
(* updated, progress is advanced, the response is built; progress is never *)
(* advanced before the result has been received.                           *)
(***************************************************************************)
Rank(ev) ==
    CASE ev = "entry_create" -> 1
      [] ev = "worker_call" -> 2
      [] ev = "worker_result" -> 3
      [] ev = "entry_update" -> 4
      [] ev = "move_step" -> 5
      [] ev = "user_save" -> 6
      [] ev = "trace_functions" -> 7
      [] ev = "trace_calls" -> 8
      [] ev = "respond" -> 9
      [] OTHER -> 10

C6_SideEffectsInOrder ==
    \A t \in Threads :
        Method(t) = "run_code" =>
            LET events == req[t].events
            IN  /\ \A i, j \in 1..Len(events) : i < j => Rank(events[i]) < Rank(events[j])
                /\ Occurs(events, "worker_call") =>
                      (settings.SAVE_CODE_ENTRIES <=> Occurs(events, "entry_create"))
                /\ (Occurs(events, "move_step") \/ Occurs(events, "respond")) =>
                      /\ Occurs(events, "worker_result")
                      /\ settings.SAVE_CODE_ENTRIES <=> Occurs(events, "entry_update")
                /\ Occurs(events, "move_step") => req[t].result.passed
                /\ Occurs(events, "entry_update") => Occurs(events, "entry_create")

\* a run_code in which every side effect happened
C6_Witness ==
    \E t \in Threads :
        /\ Done(t)
        /\ req[t].events = <<"entry_create", "worker_call", "worker_result",
                             "entry_update", "move_step", "user_save",
                             "trace_functions", "trace_calls", "respond">>

(***************************************************************************)
(* C7: api_view answers every request with a dict.  An exception raised    *)
(* while the method is looked up, the body decoded, the arguments checked  *)
(* or the method run is reported with capture_exception and answered as    *)
(* {error: {traceback}}; a value that is not a dict is answered as         *)
(* {result: value}.                                                        *)
(***************************************************************************)
ReturnNothing == {"set_developer_mode", "set_page", "submit_feedback"}

C7_StructuredResponse ==
    \A t \in Threads :
        LET r == req[t]
            args == r.request.args
        IN  /\ r.pc \in {"idle", "in_method", "in_worker"} =>
                  r.exc = "none" /\ ~Occurs(r.events, "capture_exception")
            /\ Done(t) =>
                /\ r.exc # "none" =>
                      /\ DOMAIN r.response = {"error"}
                      /\ r.response.error = [traceback |-> r.exc]
                      /\ Len(r.events) > 0
                      /\ r.events[Len(r.events)] = "capture_exception"
                /\ r.exc = "none" =>
                      /\ ~Occurs(r.events, "capture_exception")
                      /\ Method(t) \in ReturnNothing => r.response = [result |-> None]
                      /\ Method(t) \in {"current_state", "move_step"} =>
                            DOMAIN r.response = {"pages_progress"}
                      /\ Method(t) = "get_solution" =>
                            DOMAIN r.response = {"tokens", "maskedIndices", "mask"}
                /\ Method(t) \notin MethodNames => r.exc = "AttributeError"
                /\ (Method(t) \in MethodNames /\ r.request.body # "json") =>
                      r.exc \in {"UnicodeDecodeError", "JSONDecodeError"}
                /\ (/\ Method(t) \in MethodNames
                    /\ r.request.body = "json"
                    /\ DOMAIN args # Params(Method(t))) =>
                      r.exc \in {"KeyError", "TypeError"}
                /\ (/\ Method(t) \in {"run_code", "move_step", "get_solution"}
                    /\ r.request.body = "json"
                    /\ DOMAIN args = Params(Method(t))
                    /\ ~PyInRange(page_slugs_list, args.page_index)) =>
                      r.exc = "IndexError"
                /\ (/\ Method(t) \in {"run_code", "get_solution"}
                    /\ r.request.body = "json"
                    /\ DOMAIN args = Params(Method(t))
                    /\ PyInRange(page_slugs_list, args.page_index)
                    /\ ~PyInRange(move_step_names(args.page_index), args.step_index)) =>
                      r.exc = "IndexError"

\* a move_step without its step_index: the type-hint loop raises KeyError
C7_Witness ==
    \E t \in Threads :
        /\ Done(t)
        /\ Method(t) = "move_step"
        /\ DOMAIN req[t].request.args = {"page_index"}
        /\ req[t].exc = "KeyError"
        /\ req[t].response = [error |-> [traceback |-> "KeyError"]]
        /\ req[t].events = <<"capture_exception">>

(***************************************************************************)
(* C8: when a run_code ends in an exception, the stored user is what it    *)
(* was when the request loaded it.                                         *)
(***************************************************************************)
C8_FaultLeavesProgress ==
    \A t \in Threads :
        (/\ Done(t)
         /\ Method(t) = "run_code"
         /\ ~req[t].loaded.is_anonymous
         /\ req[t].exc # "none") =>
            /\ DOMAIN req[t].response = {"error"}
            /\ stored = req[t].loaded

(***************************************************************************)
(* C9 as stated: no step makes the recorded index of a page smaller.       *)
(***************************************************************************)
C9_NeverDecreases ==
    [][\A i \in 0..(NumPages - 1) :
          RecordedIndex(stored', i) >= RecordedIndex(stored, i)]_vars

(***************************************************************************)
(* C9 as amended: the recorded index of a page changes only through a      *)
(* move_step with a step_index in range or a passing run_code without      *)
(* error, both for that page, and it becomes the index asked for (for      *)
(* run_code step_index + 1), smaller or larger; no other method changes    *)
(* it; a page without an entry counts as index 0.                          *)
(***************************************************************************)
Target(t) ==
    IF Method(t) = "run_code"
    THEN req[t].request.args.step_index + 1
    ELSE req[t].request.args.step_index

C9_ChangesOnlyToTarget ==
    /\ \A t \in Threads : req[t].pc # "done" => req[t].loaded = req[t].user
    /\ \A t \in Threads :
        (Done(t) /\ ~req[t].loaded.is_anonymous) =>
            /\ stored.page_slug # req[t].loaded.page_slug => Method(t) = "set_page"
            /\ \A i \in 0..(NumPages - 1) :
                  RecordedIndex(stored, i) # RecordedIndex(req[t].loaded, i) =>
                      /\ Method(t) \in {"move_step", "run_code"}
                      /\ Occurs(req[t].events, "user_save")
                      /\ PyGet(page_slugs_list, req[t].request.args.page_index)
                             = page_slugs_list[i + 1]
                      /\ RecordedIndex(stored, i) = Target(t)
                      /\ Method(t) = "run_code" =>
                            /\ req[t].result.passed
                            /\ ~error_is_set(req[t].result.error)
            /\ (Method(t) \in {"current_state", "move_step"} /\ req[t].exc = "none") =>
                  \A i \in 1..NumPages :
                      page_slugs_list[i] \notin DOMAIN stored.pages_progress =>
                          req[t].response.pages_progress[i] = 0

\* a move_step that took the first page from its last step back to its first
C9_Witness ==
    \E t \in Threads :
        /\ Moved(t)
        /\ req[t].exc = "none"
        /\ req[t].request.args.page_index = 0
        /\ RecordedIndex(req[t].loaded, 0) = 2
        /\ RecordedIndex(stored, 0) = 0
        /\ "loops" \notin DOMAIN stored.pages_progress

(***************************************************************************)
(* C10: current_state returns one index per page, in catalog order: the    *)
(* 0-based position of the recorded step name among the page's step names, *)
(* 0 for a page without an entry; it raises nothing and changes nothing.   *)
(***************************************************************************)
C10_CurrentStateReads ==
    \A t \in Threads :
        (Done(t) /\ Method(t) = "current_state" /\ req[t].request.body = "json"
                 /\ ~req[t].loaded.is_anonymous) =>
            /\ req[t].exc = "none"
            /\ stored = req[t].loaded
            /\ req[t].user = req[t].loaded
            /\ req[t].events = <<>>
            /\ DOMAIN req[t].response.pages_progress = 1..NumPages
            /\ \A i \in 1..NumPages :
                  LET slug == page_slugs_list[i]
                      k == req[t].response.pages_progress[i]
                  IN  /\ pages[slug].index = i - 1
                      /\ 0 <= k /\ k < Len(pages[slug].step_names)
                      /\ IF slug \in DOMAIN stored.pages_progress
                         THEN pages[slug].step_names[k + 1] = stored.pages_progress[slug]
                         ELSE k = 0

\* a learner at the last step of the first page who never touched the second
C10_Witness ==
    \E t \in Threads :
        /\ Done(t)
        /\ Method(t) = "current_state"
        /\ req[t].exc = "none"
        /\ DOMAIN stored.pages_progress = {"intro"}
        /\ stored.pages_progress["intro"] = "final_text"
        /\ "loops" \notin DOMAIN stored.pages_progress
        /\ req[t].response.pages_progress = <<2, 0>>

(***************************************************************************)
(* C11: when two run_code or move_step requests of one learner interleave, *)
(* each on the user object it loaded, every save stores the whole user     *)
(* object of the request that saves: that object is the request's loaded   *)
(* copy with the step of its own target page set, so the row after both    *)
(* requests is the object of the one that saved last; nothing else changes *)
(* the row; every stored step is a step of its page; and a request raises  *)
(* only what it raises when it runs alone.                                 *)
(***************************************************************************)
Saves(t) ==
    /\ req[t].pc # "done"
    /\ req'[t].pc = "done"
    /\ Occurs(req'[t].events, "user_save")

RaisesAlone(request) ==
    IF /\ request.method_name = "run_code"
       /\ request.args.step_index >= StepCount(request.args.page_index)
    THEN "IndexError"
    ELSE "none"

C11_LastWriteWins ==
    /\ [](/\ StepsInRange(stored)
          /\ \A t \in Threads : Done(t) => req[t].exc = RaisesAlone(req[t].request))
    /\ [][/\ \A t \in Threads :
                Saves(t) =>
                    /\ stored' = req'[t].user
                    /\ req'[t].loaded = req[t].user
                    /\ req'[t].user =
                          [req[t].user EXCEPT !.pages_progress =
                              DictSet(@, page_slugs_list[req[t].request.args.page_index + 1],
                                      pages[page_slugs_list[req[t].request.args.page_index + 1]]
                                          .step_names[Target(t) + 1])]
          /\ (\A t \in Threads : ~Saves(t)) => stored' = stored]_vars

\* both requests loaded the empty record; r1 saved the first page, then r2
\* saved the second: the row holds r2's object and r1's entry is gone
C11_Witness ==
    /\ Done("r1") /\ Done("r2")
    /\ req["r1"].loaded.pages_progress = EmptyDict
    /\ req["r2"].loaded.pages_progress = EmptyDict
    /\ Occurs(req["r1"].events, "user_save")
    /\ Occurs(req["r2"].events, "user_save")
    /\ Method("r1") = "run_code" /\ Method("r2") = "move_step"
    /\ DOMAIN req["r1"].user.pages_progress = {"intro"}
    /\ DOMAIN req["r2"].user.pages_progress = {"loops"}
    /\ stored = req["r2"].user
    /\ req["r1"].exc = "none" /\ req["r2"].exc = "none"

(***************************************************************************)
(* C12: in every run_code response that is not an error, the output parts  *)
(* are the parts of the worker's result in their order, followed by the    *)
(* one fragment {text: ">>> ", color: "white"} when awaiting_input is      *)
(* false, and followed by nothing when it is true.                         *)
(***************************************************************************)
C12_PromptAppended ==
    \A t \in Threads :
        (/\ Submitted(t)
         /\ req[t].exc = "none"
         /\ ~error_is_set(req[t].result.error)) =>
            LET out == req[t].response.result
                parts == req[t].result.output_parts
            IN  /\ \A i \in 1..Len(parts) : i <= Len(out) /\ out[i] = parts[i]
                /\ IF req[t].result.awaiting_input
                   THEN Len(out) = Len(parts)
                   ELSE /\ Len(out) = Len(parts) + 1
                        /\ out[Len(out)].text = ">>> "
                        /\ out[Len(out)].color = "white"

\* two printed parts and a program that waits for input: no prompt
C12_Witness ==
    \E t \in Threads :
        /\ Submitted(t)
        /\ req[t].exc = "none"
        /\ ~error_is_set(req[t].result.error)
        /\ req[t].result.awaiting_input
        /\ Len(req[t].result.output_parts) = MaxParts
        /\ req[t].response.result = req[t].result.output_parts

(***************************************************************************)
(* C13: in every answer of get_solution, mask is as long as tokens; for    *)
(* every index i, mask[i] is true exactly when i is in maskedIndices and   *)
(* exactly when tokens[i] is not made of whitespace only; maskedIndices    *)
(* holds each such index once, in whatever order the shuffle left them.    *)
(* A token is whitespace only when it has a character and all its          *)
(* characters are spaces, tabs or newlines.                                *)
(***************************************************************************)
PureWhitespace(token) ==
    /\ token # <<>>
    /\ {token[i] : i \in 1..Len(token)} \subseteq {" ", "\t", "\n"}

Answered(t) ==
    /\ Done(t)
    /\ Method(t) = "get_solution"
    /\ req[t].exc = "none"

C13_MaskMatchesTokens ==
    \A t \in Threads :
        Answered(t) =>
            LET tokens == req[t].response.tokens
                mask == req[t].response.mask
                maskedIndices == req[t].response.maskedIndices
            IN  /\ Len(mask) = Len(tokens)
                /\ \A i \in 0..(Len(tokens) - 1) :
                      /\ mask[i + 1] <=> (\E k \in 1..Len(maskedIndices) : maskedIndices[k] = i)
                      /\ mask[i + 1] <=> ~PureWhitespace(tokens[i + 1])
                /\ \A k \in 1..Len(maskedIndices) :
                      /\ maskedIndices[k] \in 0..(Len(tokens) - 1)
                      /\ \A l \in 1..Len(maskedIndices) :
                            maskedIndices[k] = maskedIndices[l] => k = l

\* the program "x +": the tokens x, a space, +, and the empty NEWLINE token,
\* offered in the order 3, 0, 2
C13_Witness ==
    \E t \in Threads :
        /\ Answered(t)
        /\ program_text = <<"x", " ", "+">>
        /\ req[t].response.tokens = <<<<"x">>, <<" ">>, <<"+">>, <<>>>>
        /\ req[t].response.mask = <<TRUE, FALSE, TRUE, TRUE>>
        /\ req[t].response.maskedIndices = <<3, 0, 2>>

(***************************************************************************)
(* C14: the tokens get_solution returns, concatenated in their order, are  *)
(* the program text of the step, character for character.                  *)
(***************************************************************************)
RECURSIVE join(_)
join(tokens) == IF tokens = <<>> THEN <<>> ELSE Head(tokens) \o join(Tail(tokens))

C14_RoundTrip ==
    \A t \in Threads :
        Answered(t) => join(req[t].response.tokens) = program_text

(***************************************************************************)
(* C15: the stored progress record gains an entry for a page only through  *)
(* a move_step, direct or from a passing run_code, that targets that page  *)
(* with a step index in range; no read creates one; and such a move_step   *)
(* on a page without entry succeeds and stores the entry.                  *)
(***************************************************************************)
TargetsInRange(t, slug) ==
    /\ Method(t) \in {"move_step", "run_code"}
    /\ DOMAIN req[t].request.args = Params(Method(t))
    /\ PyInRange(page_slugs_list, req[t].request.args.page_index)
    /\ PyGet(page_slugs_list, req[t].request.args.page_index) = slug
    /\ 0 <= Target(t) /\ Target(t) < Len(pages[slug].step_names)
    /\ Method(t) = "run_code" =>
          /\ "error" \in DOMAIN req[t].result
          /\ req[t].result.passed
          /\ ~error_is_set(req[t].result.error)

C15_EntriesOnlyWhenReached ==
    \A t \in Threads :
        ~req[t].loaded.is_anonymous =>
            /\ \A slug \in Slugs :
                  /\ (/\ slug \in DOMAIN req[t].user.pages_progress
                      /\ slug \notin DOMAIN req[t].loaded.pages_progress) =>
                        Done(t) /\ TargetsInRange(t, slug)
                  /\ (/\ Done(t)
                      /\ slug \in DOMAIN stored.pages_progress
                      /\ slug \notin DOMAIN req[t].loaded.pages_progress) =>
                        TargetsInRange(t, slug)
                  /\ (/\ Moved(t)
                      /\ TargetsInRange(t, slug)
                      /\ slug \notin DOMAIN req[t].loaded.pages_progress
                      /\ req[t].exc # "DatabaseError") =>
                        /\ req[t].exc = "none"
                        /\ slug \in DOMAIN stored.pages_progress
                        /\ stored.pages_progress[slug]
                               = pages[slug].step_names[Target(t) + 1]
                        /\ DOMAIN stored.pages_progress
                               = DOMAIN req[t].loaded.pages_progress \cup {slug}

\* a first move_step on the second page of a learner with an empty record
C15_Witness ==
    \E t \in Threads :
        /\ Moved(t)
        /\ req[t].exc = "none"
        /\ req[t].loaded.pages_progress = EmptyDict
        /\ req[t].request.args.page_index = 1
        /\ req[t].request.args.step_index = 1
        /\ DOMAIN stored.pages_progress = {"loops"}
        /\ stored.pages_progress["loops"] = "final_text"

(***************************************************************************)
(* C16: with SAVE_CODE_ENTRIES set, a run_code that reaches the worker     *)
(* has created one CodeEntry before the call, and once worker_result has   *)
(* returned it saves the result's output in that entry once, also when the *)
(* result carries an error; with SAVE_CODE_ENTRIES unset no entry is       *)
(* created or updated; and the response, the stored user and the other     *)
(* side effects are those of the same run without entries.                 *)
(***************************************************************************)
Count(events, ev) == Cardinality({i \in 1..Len(events) : events[i] = ev})

RECURSIVE WithoutEntryEvents(_)
WithoutEntryEvents(events) ==
    IF events = <<>> THEN <<>>
    ELSE IF Head(events) \in {"entry_create", "entry_update"}
    THEN WithoutEntryEvents(Tail(events))
    ELSE <<Head(events)>> \o WithoutEntryEvents(Tail(events))

\* the same run_code, on the same user and result, with SAVE_CODE_ENTRIES unset
RunWithoutEntries(t) ==
    api_view_finish(
        run_code_end([NewContext(req[t].loaded,
                                 IF req[t].loaded.is_anonymous THEN stored ELSE req[t].loaded)
                         EXCEPT !.events = <<"worker_call">>],
                     req[t].request.args, req[t].result, FALSE, 0, "none"))

C16_EntryCreatedAndUpdatedOnce ==
    \A t \in Threads :
        (Method(t) = "run_code" /\ Occurs(req[t].events, "worker_call")) =>
            LET events == req[t].events
                returned == Done(t) /\ "error" \in DOMAIN req[t].result
            IN  /\ settings.SAVE_CODE_ENTRIES =>
                      /\ Count(events, "entry_create") = 1
                      /\ events[1] = "entry_create" /\ events[2] = "worker_call"
                      /\ req[t].entry.saved
                      /\ Count(events, "entry_update") = IF returned /\ req[t].entry.output # None
                                                         THEN 1 ELSE 0
                      /\ (returned /\ Count(events, "entry_update") = 0) =>
                            /\ req[t].exc = "DatabaseError"
                            /\ events[Len(events) - 1] = "worker_result"
                      /\ Count(events, "entry_update") = 1 =>
                            /\ req[t].entry.output = req[t].result.output
                            /\ events[4] = "entry_update" /\ events[3] = "worker_result"
                      /\ (returned /\ req[t].exc = "none") =>
                            /\ Count(events, "entry_update") = 1
                            /\ req[t].response = RunWithoutEntries(t).ret.value
                            /\ stored = RunWithoutEntries(t).db
                            /\ WithoutEntryEvents(events) = RunWithoutEntries(t).events
                /\ ~settings.SAVE_CODE_ENTRIES =>
                      /\ Count(events, "entry_create") = 0
                      /\ Count(events, "entry_update") = 0
                      /\ req[t].entry = NoEntry

\* a result that carries an error: the entry is created and updated all the same
C16_Witness ==
    \E t \in Threads :
        /\ Done(t)
        /\ settings.SAVE_CODE_ENTRIES
        /\ req[t].events = <<"entry_create", "worker_call", "worker_result", "entry_update">>
        /\ error_is_set(req[t].result.error)
        /\ req[t].entry.output = "hi\n"
        /\ req[t].response = [error |-> "worker died"]

(***************************************************************************)
(* C17 as stated: every run_code that api_view calls has called the worker *)
(* exactly once and move_step at most once when it is answered.            *)
(***************************************************************************)
Called(t) ==
    /\ Done(t)
    /\ Method(t) = "run_code"
    /\ api_view_prepare(req[t].request) = "none"

C17_CalledExactlyOnce ==
    \A t \in Threads :
        Called(t) =>
            /\ Count(req[t].events, "worker_call") = 1
            /\ Count(req[t].events, "move_step") <= 1

(***************************************************************************)
(* C17 as amended: a run_code calls the worker at most once and move_step  *)
(* at most once, whatever the result; it calls the worker exactly once     *)
(* when its page and step indices are valid and the creation of the        *)
(* CodeEntry did not fail.                                                 *)
(***************************************************************************)
C17_NothingRetried ==
    \A t \in Threads :
        Method(t) = "run_code" =>
            LET events == req[t].events
                args == req[t].request.args
            IN  /\ Count(events, "worker_call") <= 1
                /\ Count(events, "worker_result") <= 1
                /\ Count(events, "move_step") <= 1
                /\ Count(events, "user_save") <= 1
                /\ Count(events, "entry_create") <= 1
                /\ Count(events, "entry_update") <= 1
                /\ Called(t) =>
                      IF /\ PyInRange(page_slugs_list, args.page_index)
                         /\ PyInRange(move_step_names(args.page_index), args.step_index)
                      THEN \/ Count(events, "worker_call") = 1
                           \/ /\ settings.SAVE_CODE_ENTRIES
                              /\ req[t].exc = "DatabaseError"
                              /\ events = <<"capture_exception">>
                      ELSE /\ Count(events, "worker_call") = 0
                           /\ req[t].exc = "IndexError"

\* a passing run_code whose trace store fails: one worker call, one move_step
C17_Witness ==
    \E t \in Threads :
        /\ Called(t)
        /\ req[t].exc = "OperationalError"
        /\ "error" \in DOMAIN req[t].result
        /\ req[t].result.passed
        /\ Count(req[t].events, "worker_call") = 1
        /\ Count(req[t].events, "move_step") = 1
        /\ Count(req[t].events, "user_save") = 1

(***************************************************************************)
(* C18: a run_code whose result has no error and passed false never calls  *)
(* move_step and never saves the user: the stored user, progress and       *)
(* current page included, is the one the request loaded; and the response  *)
(* run_code returns carries passed false and the snapshot of that          *)
(* unchanged progress.                                                     *)
(***************************************************************************)
C18_FailedLeavesProgress ==
    \A t \in Threads :
        (/\ Submitted(t)
         /\ ~error_is_set(req[t].result.error)
         /\ ~req[t].result.passed) =>
            /\ ~Occurs(req[t].events, "move_step")
            /\ ~Occurs(req[t].events, "user_save")
            /\ stored = req[t].loaded
            /\ req[t].user = req[t].loaded
            /\ stored.page_slug = req[t].loaded.page_slug
            /\ req[t].exc \notin {"IndexError", "AttributeError", "NotImplementedError",
                                  "ValueError"}
            /\ req[t].exc = "none" =>
                  /\ req[t].response.passed = FALSE
                  /\ req[t].response.state = Snapshot(req[t].loaded)
                  /\ Occurs(req[t].events, "respond")

\* a learner at the second step of the first page whose code does not pass
C18_Witness ==
    \E t \in Threads :
        /\ Submitted(t)
        /\ req[t].exc = "none"
        /\ ~error_is_set(req[t].result.error)
        /\ ~req[t].result.passed
        /\ req[t].request.args.page_index = 0
        /\ req[t].request.args.step_index = 1
        /\ DOMAIN req[t].loaded.pages_progress = {"intro"}
        /\ req[t].loaded.pages_progress["intro"] = "hello_world"
        /\ stored = req[t].loaded
        /\ req[t].response.passed = FALSE
        /\ req[t].response.state.pages_progress = <<1, 0>>

(***************************************************************************)
(* C19: in a run_code whose result has no error and whose collaborators    *)
(* answer: without birdseye objects the response's birdseye_url is None;   *)
(* with birdseye objects, whose calls each reference one of their          *)
(* functions, run_code returns a response, every function is stored before *)
(* any call, every stored call references the new id of the function it    *)
(* referenced, and the birdseye_url is built from the id of the last call  *)
(* stored - also when the list of calls is empty.                          *)
(***************************************************************************)
ReferencesResolve(birdseye_objects) ==
    \A k \in 1..Len(birdseye_objects.calls) :
        \E i \in 1..Len(birdseye_objects.functions) :
            birdseye_objects.functions[i].id = birdseye_objects.calls[k].function_id

C19_TraceReference ==
    \A t \in Threads :
        (/\ Submitted(t)
         /\ ~error_is_set(req[t].result.error)
         /\ req[t].exc \notin {"DatabaseError", "OperationalError"}
         /\ ReferencesResolve(req[t].result.birdseye_objects)) =>
            LET birdseye_objects == req[t].result.birdseye_objects
                trace == req[t].trace
            IN  /\ req[t].exc = "none"
                /\ IF birdseye_objects.is_none
                   THEN /\ req[t].response.birdseye_url = None
                        /\ trace = NoTrace
                   ELSE /\ Len(trace.functions) = Len(birdseye_objects.functions)
                        /\ Len(trace.calls) = Len(birdseye_objects.calls)
                        /\ \A k \in 1..Len(trace.calls) :
                              \E i \in 1..Len(trace.functions) :
                                  /\ birdseye_objects.functions[i].id
                                         = birdseye_objects.calls[k].function_id
                                  /\ trace.calls[k].function_id = trace.functions[i].id
                        /\ Len(trace.calls) > 0 =>
                              req[t].response.birdseye_url =
                                  "/birdseye/ipython_call/" \o trace.calls[Len(trace.calls)].id

(***************************************************************************)
(* C20: set_page with 0 <= index < number of pages stores the slug at that *)
(* position of page_slugs_list as the learner's page_slug and leaves       *)
(* pages_progress as it was; every slug has one position, which is its     *)
(* page's index, so load_data reports as page_index the position of the    *)
(* stored page_slug, the index last set; move_step and run_code never      *)
(* change page_slug.                                                       *)
(***************************************************************************)
PositionOf(slug) == CHOOSE i \in 0..(NumPages - 1) : page_slugs_list[i + 1] = slug

C20_SetPageRoundTrip ==
    /\ \A i, j \in 1..NumPages :
          /\ page_slugs_list[i] = page_slugs_list[j] => i = j
          /\ pages[page_slugs_list[i]].index = i - 1
    /\ stored.page_slug \in Slugs
    /\ \A t \in Threads :
        (Done(t) /\ ~req[t].loaded.is_anonymous /\ api_view_prepare(req[t].request) = "none") =>
            /\ (/\ Method(t) = "set_page"
                /\ ValidPage(req[t].request.args.index)
                /\ req[t].exc # "DatabaseError") =>
                  /\ req[t].exc = "none"
                  /\ stored.page_slug = page_slugs_list[req[t].request.args.index + 1]
                  /\ PositionOf(stored.page_slug) = req[t].request.args.index
                  /\ stored.pages_progress = req[t].loaded.pages_progress
                  /\ stored.developer_mode = req[t].loaded.developer_mode
                  /\ Occurs(req[t].events, "user_save")
            /\ Method(t) = "load_data" =>
                  /\ req[t].exc = "none"
                  /\ stored = req[t].loaded
                  /\ req[t].response.page_index = PositionOf(stored.page_slug)
            /\ Method(t) \in {"move_step", "run_code"} =>
                  stored.page_slug = req[t].loaded.page_slug

\* load_data after set_page(1): the learner started on page 0
C20_Witness ==
    \E t \in Threads :
        /\ Done(t)
        /\ Method(t) = "load_data"
        /\ req[t].exc = "none"
        /\ stored.page_slug = "loops"
        /\ req[t].response.page_index = 1

=============================================================================
